---------------------------- MODULE Spec2Model ----------------------------
(***************************************************************************)
(* Model of the Cloud Function processCoordinates (src/src/index.ts and    *)
(* its compiled form src/unnamed/part_000).                                *)
(*                                                                         *)
(* Text is a sequence of one-character strings, so that split, trim,       *)
(* replace, parseFloat and the CSV join are computed character by          *)
(* character.  The fields of the coordinate lines hold no 'e'/'E', so no   *)
(* exponent form reaches parseFloat.                                       *)
(*                                                                         *)
(* A JavaScript value is a record with a field k naming its type.          *)
(* A finite number is m / 10^e with m an integer, normalised so that       *)
(* m % 10 # 0 or e = 0 (-0 is represented as 0: the program never          *)
(* distinguishes them).                                                    *)
(***************************************************************************)
EXTENDS Integers, Sequences, FiniteSets, TLC

VARIABLES
  coordsObj,    \* bucket object coordonnees.txt: Absent or [k |-> "blob", text]
  geoObj,       \* bucket object plan-culture.geojson: Absent or a blob
  resultat,     \* bucket object resultat.csv: Absent or [k |-> "blob", text]
  pc,           \* pc[i]: the await at which invocation i is suspended, or "done"
  coordinates,  \* coordinates[i]: the local const coordinates
  features,     \* features[i]: the local const features (geoJson.features)
  results,      \* results[i]: the local const results
  csvContent,   \* csvContent[i]: the local const csvContent
  error,        \* error[i]: the exception caught by invocation i, or NoError
  response,     \* response[i]: the sequence of HTTP responses sent on res
  steps,        \* steps[i]: history of the steps invocation i has executed
  lastWriter,   \* history: the invocation whose save of resultat.csv was last
  uploads,      \* number of times the environment replaced an input object
  arg,          \* input of the pure function under check
  ret,          \* its result
  called        \* whether it has been applied

vars == <<coordsObj, geoObj, resultat, pc, coordinates, features, results,
          csvContent, error, response, steps, lastWriter, uploads,
          arg, ret, called>>

orchVars == <<coordsObj, geoObj, resultat, pc, coordinates, features, results,
              csvContent, error, response, steps, lastWriter, uploads>>

pureVars == <<arg, ret, called>>

---------------------------------------------------------------------------
(* JavaScript values *)

Undefined == [k |-> "undefined"]

Null == [k |-> "null"]

Absent == [k |-> "absent"]

Str(s) == [k |-> "string", s |-> s]

NaN == [k |-> "number", cls |-> "nan", m |-> 0, e |-> 0]

Infinity == [k |-> "number", cls |-> "inf", m |-> 0, e |-> 0]

NegInfinity == [k |-> "number", cls |-> "-inf", m |-> 0, e |-> 0]

RECURSIVE Normalize(_, _)
Normalize(m, e) ==
  IF m = 0 THEN [k |-> "number", cls |-> "finite", m |-> 0, e |-> 0]
  ELSE IF e > 0 /\ m % 10 = 0 THEN Normalize(m \div 10, e - 1)
  ELSE [k |-> "number", cls |-> "finite", m |-> m, e |-> e]

Num(n) == Normalize(n, 0)

Throw(name, msg) == [k |-> "throw", name |-> name, message |-> msg]

IsThrow(v) == v.k = "throw"

isNaN(x) == x.k = "number" /\ x.cls = "nan"

IsFinite(x) == x.k = "number" /\ x.cls = "finite"

---------------------------------------------------------------------------
(* Text helpers: String.prototype.trim, split, replace *)

WhiteSpace == {" ", "\t", "\r", "\n"}

Digits == {"0", "1", "2", "3", "4", "5", "6", "7", "8", "9"}

DigitVal(c) ==
  CASE c = "0" -> 0 [] c = "1" -> 1 [] c = "2" -> 2 [] c = "3" -> 3
    [] c = "4" -> 4 [] c = "5" -> 5 [] c = "6" -> 6 [] c = "7" -> 7
    [] c = "8" -> 8 [] c = "9" -> 9

DigitChar(d) ==
  CASE d = 0 -> "0" [] d = 1 -> "1" [] d = 2 -> "2" [] d = 3 -> "3"
    [] d = 4 -> "4" [] d = 5 -> "5" [] d = 6 -> "6" [] d = 7 -> "7"
    [] d = 8 -> "8" [] d = 9 -> "9"

RECURSIVE TrimStart(_)
TrimStart(s) ==
  IF s # <<>> /\ Head(s) \in WhiteSpace THEN TrimStart(Tail(s)) ELSE s

RECURSIVE TrimEnd(_)
TrimEnd(s) ==
  IF s # <<>> /\ s[Len(s)] \in WhiteSpace
  THEN TrimEnd(SubSeq(s, 1, Len(s) - 1)) ELSE s

Trim(s) == TrimEnd(TrimStart(s))

RECURSIVE SplitRec(_, _, _, _, _)
SplitRec(s, c, i, cur, acc) ==
  IF i > Len(s) THEN Append(acc, cur)
  ELSE IF s[i] = c THEN SplitRec(s, c, i + 1, <<>>, Append(acc, cur))
  ELSE SplitRec(s, c, i + 1, Append(cur, s[i]), acc)

\* s.split(c) for a one-character separator c
Split(s, c) == SplitRec(s, c, 1, <<>>, <<>>)

\* s.replace(a, b) with string arguments: the first occurrence only
RECURSIVE ReplaceFirst(_, _, _)
ReplaceFirst(s, a, b) ==
  IF s = <<>> THEN <<>>
  ELSE IF Head(s) = a THEN <<b>> \o Tail(s)
  ELSE <<Head(s)>> \o ReplaceFirst(Tail(s), a, b)

StripCR(s) ==
  IF s # <<>> /\ s[Len(s)] = "\r" THEN SubSeq(s, 1, Len(s) - 1) ELSE s

RECURSIVE SplitLinesRec(_, _, _, _)
SplitLinesRec(s, i, cur, acc) ==
  IF i > Len(s) THEN Append(acc, cur)
  ELSE IF s[i] = "\n" THEN SplitLinesRec(s, i + 1, <<>>, Append(acc, StripCR(cur)))
  ELSE SplitLinesRec(s, i + 1, Append(cur, s[i]), acc)

\* text.split(/\r?\n/)
SplitLines(text) == SplitLinesRec(text, 1, <<>>, <<>>)

RECURSIVE JoinWith(_, _)
\* parts.join(sep), sep a text
JoinWith(parts, sep) ==
  IF parts = <<>> THEN <<>>
  ELSE IF Len(parts) = 1 THEN parts[1]
  ELSE parts[1] \o sep \o JoinWith(Tail(parts), sep)

---------------------------------------------------------------------------
(* parseFloat and Number-to-string *)

RECURSIVE DigitPrefix(_)
DigitPrefix(s) ==
  IF s # <<>> /\ Head(s) \in Digits THEN <<Head(s)>> \o DigitPrefix(Tail(s))
  ELSE <<>>

RECURSIVE DigitsToInt(_, _)
DigitsToInt(ds, acc) ==
  IF ds = <<>> THEN acc ELSE DigitsToInt(Tail(ds), acc * 10 + DigitVal(Head(ds)))

InfinityText == <<"I", "n", "f", "i", "n", "i", "t", "y">>

StartsWith(s, p) == Len(s) >= Len(p) /\ SubSeq(s, 1, Len(p)) = p

Drop(s, n) == SubSeq(s, n + 1, Len(s))

\* parseFloat(s): leading white space skipped, then the longest prefix that
\* is a decimal literal (sign, Infinity | digits [. digits] | . digits)
parseFloat(s) ==
  LET t    == TrimStart(s)
      neg  == t # <<>> /\ Head(t) = "-"
      u    == IF t # <<>> /\ Head(t) \in {"+", "-"} THEN Tail(t) ELSE t
      ip   == DigitPrefix(u)
      r    == Drop(u, Len(ip))
      fp   == IF r # <<>> /\ Head(r) = "." THEN DigitPrefix(Tail(r)) ELSE <<>>
      mag  == DigitsToInt(ip \o fp, 0)
  IN  IF StartsWith(u, InfinityText) THEN (IF neg THEN NegInfinity ELSE Infinity)
      ELSE IF Len(ip) + Len(fp) = 0 THEN NaN
      ELSE Normalize(IF neg THEN 0 - mag ELSE mag, Len(fp))

RECURSIVE Pow10(_)
Pow10(n) == IF n = 0 THEN 1 ELSE 10 * Pow10(n - 1)

RECURSIVE NatToText(_)
NatToText(n) ==
  IF n < 10 THEN <<DigitChar(n)>> ELSE NatToText(n \div 10) \o <<DigitChar(n % 10)>>

RECURSIVE PadLeft(_, _)
PadLeft(s, n) == IF Len(s) >= n THEN s ELSE PadLeft(<<"0">> \o s, n)

\* String(x) of a number, in the range where JavaScript uses no exponent
NumberToText(x) ==
  CASE x.cls = "nan"  -> <<"N", "a", "N">>
    [] x.cls = "inf"  -> InfinityText
    [] x.cls = "-inf" -> <<"-">> \o InfinityText
    [] x.cls = "finite" ->
         LET a  == IF x.m < 0 THEN 0 - x.m ELSE x.m
             p  == Pow10(x.e)
             ip == NatToText(a \div p)
             fp == IF x.e = 0 THEN <<>> ELSE <<".">> \o PadLeft(NatToText(a % p), x.e)
         IN  (IF x.m < 0 THEN <<"-">> ELSE <<>>) \o ip \o fp

---------------------------------------------------------------------------
(* parseCoordinateLine *)

Coordinate(uid, lat, lon) == [k |-> "coordinate", uid |-> uid, lat |-> lat, lon |-> lon]

parseCoordinateLine(line) ==
  IF line = <<>> THEN Null
  ELSE LET parts == Split(Trim(line), "\t")
       IN  IF Len(parts) < 3 THEN Null
           ELSE LET uid == Trim(parts[1])
                    lat == parseFloat(ReplaceFirst(Trim(parts[2]), ",", "."))
                    lon == parseFloat(ReplaceFirst(Trim(parts[3]), ",", "."))
                IN  IF uid = <<>> \/ isNaN(lat) \/ isNaN(lon) THEN Null
                    ELSE Coordinate(uid, lat, lon)

RECURSIVE MapParse(_)
MapParse(lines) ==
  IF lines = <<>> THEN <<>>
  ELSE <<parseCoordinateLine(Head(lines))>> \o MapParse(Tail(lines))

NotNull(v) == v # Null

RECURSIVE MapParseUntilInvalid(_)
MapParseUntilInvalid(lines) ==
  IF lines = <<>> \/ parseCoordinateLine(Head(lines)) = Null THEN <<>>
  ELSE <<parseCoordinateLine(Head(lines))>> \o MapParseUntilInvalid(Tail(lines))

\* Mutant of ParseCoordinates: the first invalid line ends the parsing
ParseCoordinatesAborting(text) == MapParseUntilInvalid(Tail(SplitLines(text)))

\* lines.slice(1).map(parseCoordinateLine).filter(coord => coord !== null)
ParseCoordinates(text) ==
  LET lines == SplitLines(text)
  IN  SelectSeq(MapParse(Tail(lines)), NotNull)

---------------------------------------------------------------------------
(* Point-in-polygon matching (step c of processCoordinates) *)

Attributes == {"clecomposite", "nochamp", "culture", "variete", "nosemi", "date_semi"}

\* props.a : Undefined when the member is absent
Get(props, a) == IF a \in DOMAIN props THEN props[a] ELSE Undefined

Falsy(v) ==
  \/ v.k \in {"undefined", "null"}
  \/ v.k = "string" /\ v.s = <<>>
  \/ v.k = "number" /\ (v.cls = "nan" \/ (v.cls = "finite" /\ v.m = 0))

\* v || ''
OrEmpty(v) == IF Falsy(v) THEN Str(<<>>) ELSE v

\* The point built for a coordinate: [coord.lon, coord.lat]
PointOf(coord) == <<coord.lon, coord.lat>>

Max(a, b) == IF a >= b THEN a ELSE b

\* x * s for a finite number x whose e is at most the e of s = 10^n
Scaled(x, n) == x.m * Pow10(n - x.e)

OpenRing(ring) ==
  IF Len(ring) > 1 /\ ring[1] = ring[Len(ring)]
  THEN SubSeq(ring, 1, Len(ring) - 1) ELSE ring

\* Ray casting over one ring, points of the boundary counting as inside.
\* px, py and the ring are integers on a common scale.
RECURSIVE InRing(_, _, _, _, _)
InRing(px, py, ring, i, isInside) ==
  IF i > Len(ring) THEN isInside
  ELSE LET j  == IF i = 1 THEN Len(ring) ELSE i - 1
           xi == ring[i][1]
           yi == ring[i][2]
           xj == ring[j][1]
           yj == ring[j][2]
           onBoundary ==
             /\ py * (xi - xj) + yi * (xj - px) + yj * (px - xi) = 0
             /\ (xi - px) * (xj - px) <= 0
             /\ (yi - py) * (yj - py) <= 0
           d  == yj - yi
           intersect ==
             /\ (yi > py) # (yj > py)
             /\ IF d > 0 THEN (px - xi) * d < (xj - xi) * (py - yi)
                         ELSE (px - xi) * d > (xj - xi) * (py - yi)
       IN  IF onBoundary THEN TRUE
           ELSE InRing(px, py, ring, i + 1, IF intersect THEN ~isInside ELSE isInside)

ScaleRing(ring, n) == [v \in 1..Len(ring) |-> <<ring[v][1] * Pow10(n), ring[v][2] * Pow10(n)>>]

\* Whether booleanPointInPolygon(point, feature) throws: the feature has no
\* geometry to read a type from
PolygonThrows(feature) == feature.k # "feature" \/ feature.geometry = Null

\* booleanPointInPolygon(point, feature) where it does not throw; a point
\* with a non-finite ordinate crosses no edge and lies on none
booleanPointInPolygon(point, feature) ==
  IF ~(IsFinite(point[1]) /\ IsFinite(point[2])) THEN FALSE
  ELSE LET n == Max(point[1].e, point[2].e)
       IN  InRing(Scaled(point[1], n), Scaled(point[2], n),
                  ScaleRing(OpenRing(feature.geometry.ring), n), 1, FALSE)

\* The record returned for a coordinate inside feature (lines 131-142);
\* reading a member of props throws when props is null or undefined
MatchRecord(coord, feature) ==
  LET props == feature.properties
  IN  IF props \in {Null, Undefined}
      THEN Throw("TypeError", "Cannot read properties of null")
      ELSE [k |-> "match", uid |-> coord.uid, lat |-> coord.lat, lon |-> coord.lon,
            clecomposite |-> OrEmpty(Get(props, "clecomposite")),
            nochamp      |-> OrEmpty(Get(props, "nochamp")),
            culture      |-> OrEmpty(Get(props, "culture")),
            variete      |-> OrEmpty(Get(props, "variete")),
            nosemi       |-> OrEmpty(Get(props, "nosemi")),
            date_semi    |-> OrEmpty(Get(props, "date_semi"))]

\* Mutant of ScanFeatures: no early return, the last containing feature wins
RECURSIVE ScanFeaturesLast(_, _, _)
ScanFeaturesLast(coord, items, i) ==
  IF i > Len(items) THEN Null
  ELSE IF PolygonThrows(items[i]) THEN Throw("TypeError", "Cannot read properties of null")
  ELSE LET later == ScanFeaturesLast(coord, items, i + 1)
       IN  IF later # Null THEN later
           ELSE IF booleanPointInPolygon(PointOf(coord), items[i])
                THEN MatchRecord(coord, items[i]) ELSE Null

\* for (const feature of features) { if (...) return {...} } return null
RECURSIVE ScanFeatures(_, _, _)
ScanFeatures(coord, items, i) ==
  IF i > Len(items) THEN Null
  ELSE IF PolygonThrows(items[i]) THEN Throw("TypeError", "Cannot read properties of null")
  ELSE IF booleanPointInPolygon(PointOf(coord), items[i]) THEN MatchRecord(coord, items[i])
  ELSE ScanFeatures(coord, items, i + 1)

\* What for...of iterates: the elements of an array, the characters of a
\* string; anything else is not iterable
IsIterable(v) == v.k \in {"array", "string"}

ItemsOf(v) ==
  IF v.k = "array" THEN v.items ELSE [n \in 1..Len(v.s) |-> Str(<<v.s[n]>>)]

\* The callback of coordinates.map (lines 116-146)
LocateOne(coord, feats) ==
  IF ~IsIterable(feats) THEN Throw("TypeError", "features is not iterable")
  ELSE ScanFeatures(coord, ItemsOf(feats), 1)

Arr(items) == [k |-> "array", items |-> items]

\* coordinates.map(callback): the array of the callback's results, or the
\* first exception it throws
RECURSIVE MapLocate(_, _)
MapLocate(coords, feats) ==
  IF coords = <<>> THEN Arr(<<>>)
  ELSE LET r == LocateOne(Head(coords), feats)
       IN  IF IsThrow(r) THEN r
           ELSE LET rest == MapLocate(Tail(coords), feats)
                IN  IF IsThrow(rest) THEN rest ELSE Arr(<<r>> \o rest.items)

\* coordinates.map(...).filter(result => result !== null), or the exception
MatchAll(coords, feats) ==
  LET mapped == MapLocate(coords, feats)
  IN  IF IsThrow(mapped) THEN mapped ELSE Arr(SelectSeq(mapped.items, NotNull))

---------------------------------------------------------------------------
(* CSV report (step d) *)

header ==
  <<"u", "i", "d", ",", "l", "a", "t", "i", "t", "u", "d", "e", ",",
     "l", "o", "n", "g", "i", "t", "u", "d", "e", ",", "c", "l", "e",
     "c", "o", "m", "p", "o", "s", "i", "t", "e", ",", "n", "o", "c",
     "h", "a", "m", "p", ",", "c", "u", "l", "t", "u", "r", "e", ",",
     "v", "a", "r", "i", "e", "t", "e", ",", "n", "o", "s", "e", "m",
     "i", ",", "d", "a", "t", "e", "_", "s", "e", "m", "i">>

\* `${v}` of an attribute value after || ''
ToText(v) == IF v.k = "string" THEN v.s ELSE NumberToText(v)

CsvRow(r) ==
  JoinWith(<<r.uid, NumberToText(r.lat), NumberToText(r.lon), ToText(r.clecomposite),
             ToText(r.nochamp), ToText(r.culture), ToText(r.variete),
             ToText(r.nosemi), ToText(r.date_semi)>>, <<",">>)

BuildCsv(res) ==
  JoinWith(<<header>> \o [n \in 1..Len(res) |-> CsvRow(res[n])], <<"\n">>)

---------------------------------------------------------------------------
(* Bounds and input sets *)

MaxFields == 4

MaxLines == 3

MaxCoords == 2

MaxFeatures == 3

SeqsUpTo(S, n) == UNION {[1..m -> S] : m \in 0..n}

\* Field texts a line is made of (joined by tabs)
FieldSet ==
  {<<>>, <<" ">>, <<"a">>, <<" ", "b", " ">>, <<"1">>, <<"2", ",", "5">>, <<"-", "3", ".", "5", "0">>, InfinityText, <<"4", "x">>, <<"x">>}

LineInputs == {JoinWith(fs, <<"\t">>) : fs \in SeqsUpTo(FieldSet, MaxFields) \ {<<>>}}

\* Data lines a coordinates file is made of
LineSet ==
  {<<"a", "\t", "1", "\t", "2">>,
   <<"b", "\t", "2", ",", "5", "\t", "-", "3", ".", "5", "0">>,
   <<"c", "\t", "1">>,
   <<"x">>,
   <<"d", "\t", "x", "\t", "1">>,
   <<>>,
   <<"\t", "e", "\t", "3", "\t", "4">>}

HeaderSet == {<<"U", "I", "D", "\t", "L", "a", "t", "i", "t", "u", "d", "e", "\t", "L", "o", "n", "g", "i", "t", "u", "d", "e">>, <<"h", "\t", "1", "\t", "2">>}

LineBreaks == {<<"\n">>, <<"\r", "\n">>}

FileInputs ==
  [head : HeaderSet, lines : SeqsUpTo(LineSet, MaxLines), eol : LineBreaks]

FileText(f) == JoinWith(<<f.head>> \o f.lines, f.eol)

Polygon(ring) == [type |-> "Polygon", ring |-> ring]

Feature(geometry, properties) ==
  [k |-> "feature", geometry |-> geometry, properties |-> properties]

\* lon 0..10, lat 0..4
RingA == <<<<0, 0>>, <<10, 0>>, <<10, 4>>, <<0, 4>>, <<0, 0>>>>

\* lon 4..14, lat 2..8, overlapping RingA
RingB == <<<<4, 2>>, <<14, 2>>, <<14, 8>>, <<4, 8>>, <<4, 2>>>>

\* a triangle: lon 0..6 at lat 10, narrowing to the apex (0, 16)
RingC == <<<<0, 10>>, <<6, 10>>, <<0, 16>>, <<0, 10>>>>

PropsFull ==
  [clecomposite |-> Str(<<"k", "1">>), nochamp |-> Num(7), culture |-> Str(<<"c", "o", "r", "n">>),
   variete |-> Str(<<"v">>), nosemi |-> Num(12), date_semi |-> Str(<<"2", "0", "2", "4", "-", "0", "5", "-", "0", "1">>)]

PropsPartial == [culture |-> Str(<<"w">>), variete |-> Str(<<>>)]

FeatureA == Feature(Polygon(RingA), PropsFull)

FeatureB == Feature(Polygon(RingB), PropsPartial)

FeatureC == Feature(Polygon(RingC), [culture |-> Str(<<"c", "o", "r", "n">>)])

FeatureBNull == Feature(Polygon(RingB), Null)

FeatureNoGeometry == Feature(Null, PropsPartial)

FeatureSet ==
  {FeatureA, FeatureB, FeatureC, FeatureBNull, FeatureNoGeometry}

\* Coordinates as parseCoordinateLine returns them
CoordSet ==
  {parseCoordinateLine(<<"p", "\t", "3", "\t", "5">>),
   parseCoordinateLine(<<"r", "\t", "5", ",", "5", "\t", "1", "2">>),
   parseCoordinateLine(<<"s", "\t", "5", "\t", "3">>),
   parseCoordinateLine(<<"t", "\t", "1", "2", "\t", "2", ".", "5">>),
   parseCoordinateLine(<<"u", "\t", "I", "n", "f", "i", "n", "i", "t", "y", "\t", "5">>)}

MatchInputs ==
  [coordinates : SeqsUpTo(CoordSet, MaxCoords),
   features : {Arr(fs) : fs \in SeqsUpTo(FeatureSet, MaxFeatures)}]

---------------------------------------------------------------------------
(* Specifications applying one pure function to every input of its set *)

NumInvocations == 2

Invocations == 1..NumInvocations

NoError == [k |-> "none"]

LocalsInit ==
  /\ pc = [i \in Invocations |-> "awaitCoords"]
  /\ coordinates = [i \in Invocations |-> Undefined]
  /\ features = [i \in Invocations |-> Undefined]
  /\ results = [i \in Invocations |-> Undefined]
  /\ csvContent = [i \in Invocations |-> Undefined]
  /\ error = [i \in Invocations |-> NoError]
  /\ response = [i \in Invocations |-> <<>>]
  /\ steps = [i \in Invocations |-> <<"fetchCoords">>]
  /\ lastWriter = 0
  /\ uploads = 0

NoBucket == coordsObj = Absent /\ geoObj = Absent /\ resultat = Absent

PureInit(inputs) ==
  /\ arg \in inputs
  /\ ret = Undefined
  /\ called = FALSE
  /\ NoBucket
  /\ LocalsInit

CallParseCoordinateLine ==
  /\ ~called
  /\ ret' = parseCoordinateLine(arg)
  /\ called' = TRUE
  /\ UNCHANGED <<arg, orchVars>>

CallParseCoordinates ==
  /\ ~called
  /\ ret' = ParseCoordinates(FileText(arg))
  /\ called' = TRUE
  /\ UNCHANGED <<arg, orchVars>>

CallMatchAll ==
  /\ ~called
  /\ ret' = MatchAll(arg.coordinates, arg.features)
  /\ called' = TRUE
  /\ UNCHANGED <<arg, orchVars>>

ParseInit == PureInit(LineInputs)

ParseSpec == ParseInit /\ [][CallParseCoordinateLine]_vars

FileInit == PureInit(FileInputs)

FileSpec == FileInit /\ [][CallParseCoordinates]_vars

MatchInit == PureInit(MatchInputs)

MatchSpec == MatchInit /\ [][CallMatchAll]_vars

---------------------------------------------------------------------------
(* processCoordinates: bucket contents *)

MaxUploads == 1

Blob(text) == [k |-> "blob", text |-> text]

JsonBlob(json) == [k |-> "blob", json |-> json]

Malformed_Json == [k |-> "malformed"]

Object(members) == [k |-> "object", members |-> members]

FeatureCollection(fs) == Object([type |-> Str(<<"F", "C">>), features |-> Arr(fs)])

HeaderLine == <<"U", "I", "D", "\t", "L", "a", "t", "i", "t", "u", "d", "e", "\t", "L", "o", "n", "g", "i", "t", "u", "d", "e">>

\* three valid lines (two inside polygons, one inside none) and a malformed one
CoordsFileMixed ==
  JoinWith(<<HeaderLine, <<"p", "\t", "3", "\t", "5">>, <<"c", "\t", "1">>, <<"r", "\t", "5", ",", "5", "\t", "1", "2">>, <<"s", "\t", "5", "\t", "3">>>>, <<"\r", "\n">>)

CoordsFileOne == JoinWith(<<HeaderLine, <<"p", "\t", "3", "\t", "5">>>>, <<"\n">>)

CoordsFileEmpty == HeaderLine

CoordsBlobs == {Blob(CoordsFileMixed), Blob(CoordsFileOne), Blob(CoordsFileEmpty)}

\* a feature whose culture holds a line break
FeatureBreak == Feature(Polygon(RingA), [culture |-> Str(<<"a", "\n", "b">>)])

GeoBlobs ==
  {JsonBlob(FeatureCollection(<<FeatureA, FeatureB>>)),
   JsonBlob(FeatureCollection(<<FeatureBreak>>)),
   JsonBlob(FeatureCollection(<<FeatureBNull>>)),
   JsonBlob(Object([type |-> Str(<<"F", "C">>)])),
   JsonBlob(Object([type |-> Str(<<"F", "C">>), features |-> Str(<<>>)])),
   JsonBlob(Null),
   JsonBlob(Malformed_Json)}

InitialResultat == Blob(<<"o", "l", "d">>)

---------------------------------------------------------------------------
(* processCoordinates: the steps between two awaits *)

\* JSON.parse(geoData.toString('utf-8'))
JSONparse(blob) ==
  IF blob.json = Malformed_Json THEN Throw("SyntaxError", "Unexpected token")
  ELSE blob.json

\* geoJson.features
FeaturesOf(geoJson) ==
  IF geoJson = Null THEN Throw("TypeError", "Cannot read properties of null")
  ELSE Get(geoJson.members, "features")

\* Lines 110-158: from the downloaded GeoJSON to csvContent, or to the
\* exception thrown on the way; done lists the steps completed
ProcessGeo(coords, blob) ==
  LET geoJson == JSONparse(blob)
      feats   == IF IsThrow(geoJson) THEN geoJson ELSE FeaturesOf(geoJson)
      res     == IF IsThrow(feats) THEN feats ELSE MatchAll(coords.items, feats)
  IN  IF IsThrow(feats)
      THEN [features |-> Undefined, results |-> Undefined, csvContent |-> Undefined,
            error |-> feats, done |-> <<>>]
      ELSE IF IsThrow(res)
      THEN [features |-> feats, results |-> Undefined, csvContent |-> Undefined,
            error |-> res, done |-> <<"parseGeo">>]
      ELSE [features |-> feats, results |-> res, csvContent |-> Str(BuildCsv(res.items)),
            error |-> NoError, done |-> <<"parseGeo", "match", "build">>]

\* The coordinates each coordinates file parses to, and the outcome of lines
\* 110-158 for each of them with each GeoJSON object: tables, so that every
\* pure computation is made once
CoordinatesOf == [b \in CoordsBlobs |-> Arr(ParseCoordinates(b.text))]

OutcomeOf ==
  [c \in {CoordinatesOf[b] : b \in CoordsBlobs}, g \in GeoBlobs |-> ProcessGeo(c, g)]

Http(status, body) == [status |-> status, body |-> body]

\* Mutant of SuccessBody: the lines of the report are counted, header included
SuccessBodyCountingLines(res) ==
  <<"Succes ! ", Len(res.items) + 1, " resultats ecrits dans resultat.csv.">>

\* `Succes ! ${results.length} resultats ecrits dans resultat.csv.` (the
\* accents of the source text are left out)
SuccessBody(res) == <<"Succes ! ", Len(res.items), " resultats ecrits dans resultat.csv.">>

\* `Erreur interne : ${error.message}`
ErrorBody(e) == <<"Erreur interne : ", e.message>>

\* Mutant of SaveObject: the report is appended to the object
SaveObjectAppending(old, content) == Blob(old.text \o content.s)

\* bucket.file('resultat.csv').save(content): the object is replaced whole
SaveObject(old, content) == Blob(content.s)

\* Mutant of Catch: the failure also stores an empty report
CatchStoringReport(i, e, done) ==
  /\ error' = [error EXCEPT ![i] = e]
  /\ response' = [response EXCEPT ![i] = Append(@, Http(500, ErrorBody(e)))]
  /\ steps' = [steps EXCEPT ![i] = @ \o done \o <<"respond500">>]
  /\ pc' = [pc EXCEPT ![i] = "done"]
  /\ resultat' = Blob(header)
  /\ UNCHANGED lastWriter

\* Mutant of Catch: the failure is logged and no response is sent
CatchWithoutResponse(i, e, done) ==
  /\ error' = [error EXCEPT ![i] = e]
  /\ steps' = [steps EXCEPT ![i] = @ \o done]
  /\ pc' = [pc EXCEPT ![i] = "done"]
  /\ UNCHANGED <<response, resultat, lastWriter>>

\* The catch block (lines 169-173) after the steps in done: one 500 response
Catch(i, e, done) ==
  /\ error' = [error EXCEPT ![i] = e]
  /\ response' = [response EXCEPT ![i] = Append(@, Http(500, ErrorBody(e)))]
  /\ steps' = [steps EXCEPT ![i] = @ \o done \o <<"respond500">>]
  /\ pc' = [pc EXCEPT ![i] = "done"]
  /\ UNCHANGED <<resultat, lastWriter>>

\* The download of coordonnees.txt resolves: lines 97-109
CoordsDownloaded(i) ==
  /\ pc[i] = "awaitCoords"
  /\ coordsObj # Absent
  /\ coordinates' = [coordinates EXCEPT ![i] = CoordinatesOf[coordsObj]]
  /\ pc' = [pc EXCEPT ![i] = "awaitGeo"]
  /\ steps' = [steps EXCEPT ![i] = @ \o <<"parseCoords", "fetchGeo">>]
  /\ UNCHANGED <<coordsObj, geoObj, resultat, features, results, csvContent,
                 error, response, lastWriter, uploads, pureVars>>

\* download() rejects when the object does not exist
DownloadErrors(obj) ==
  IF obj = Absent THEN {Throw("Error", "No such object")} ELSE {}

\* The download of coordonnees.txt rejects
CoordsDownloadFailed(i) ==
  /\ pc[i] = "awaitCoords"
  /\ \E e \in DownloadErrors(coordsObj) : Catch(i, e, <<>>)
  /\ UNCHANGED <<coordsObj, geoObj, coordinates, features, results, csvContent,
                 uploads, pureVars>>

\* The download of plan-culture.geojson resolves: lines 109-163
GeoDownloaded(i) ==
  /\ pc[i] = "awaitGeo"
  /\ geoObj # Absent
  /\ \E o \in {OutcomeOf[coordinates[i], geoObj]} :
         /\ features' = [features EXCEPT ![i] = o.features]
         /\ results' = [results EXCEPT ![i] = o.results]
         /\ csvContent' = [csvContent EXCEPT ![i] = o.csvContent]
         /\ IF o.error = NoError
            THEN /\ pc' = [pc EXCEPT ![i] = "awaitSave"]
                 /\ steps' = [steps EXCEPT ![i] = @ \o o.done]
                 /\ UNCHANGED <<error, response, resultat, lastWriter>>
            ELSE Catch(i, o.error, o.done)
  /\ UNCHANGED <<coordsObj, geoObj, coordinates, uploads, pureVars>>

\* The download of plan-culture.geojson rejects
GeoDownloadFailed(i) ==
  /\ pc[i] = "awaitGeo"
  /\ \E e \in DownloadErrors(geoObj) : Catch(i, e, <<>>)
  /\ UNCHANGED <<coordsObj, geoObj, coordinates, features, results, csvContent,
                 uploads, pureVars>>

\* The store takes the object written by save (line 163)
SaveCommitted(i) ==
  /\ pc[i] = "awaitSave"
  /\ resultat' = SaveObject(resultat, csvContent[i])
  /\ lastWriter' = i
  /\ pc' = [pc EXCEPT ![i] = "saved"]
  /\ steps' = [steps EXCEPT ![i] = Append(@, "store")]
  /\ UNCHANGED <<coordsObj, geoObj, coordinates, features, results, csvContent,
                 error, response, uploads, pureVars>>

\* save resolves: line 168
SaveResolved(i) ==
  /\ pc[i] = "saved"
  /\ response' = [response EXCEPT ![i] = Append(@, Http(200, SuccessBody(results[i])))]
  /\ pc' = [pc EXCEPT ![i] = "done"]
  /\ steps' = [steps EXCEPT ![i] = Append(@, "respond200")]
  /\ UNCHANGED <<coordsObj, geoObj, resultat, coordinates, features, results,
                 csvContent, error, lastWriter, uploads, pureVars>>

\* save rejects: nothing was written
SaveFailed(i) ==
  /\ pc[i] = "awaitSave"
  /\ Catch(i, Throw("Error", "write failed"), <<>>)
  /\ UNCHANGED <<coordsObj, geoObj, coordinates, features, results, csvContent,
                 uploads, pureVars>>

\* What the next upload leaves under coordonnees.txt
Replacement(obj) ==
  CASE obj = Blob(CoordsFileMixed) -> Blob(CoordsFileOne)
    [] obj = Blob(CoordsFileOne) -> Blob(CoordsFileEmpty)
    [] obj = Blob(CoordsFileEmpty) -> Absent
    [] obj = Absent -> Blob(CoordsFileMixed)

\* Someone replaces or deletes coordonnees.txt
Upload ==
  /\ uploads < MaxUploads
  /\ uploads' = uploads + 1
  /\ coordsObj' = Replacement(coordsObj)
  /\ geoObj' = geoObj
  /\ UNCHANGED <<resultat, pc, coordinates, features, results, csvContent,
                 error, response, steps, lastWriter, pureVars>>

Continue(i) ==
  \/ CoordsDownloaded(i)
  \/ CoordsDownloadFailed(i)
  \/ GeoDownloaded(i)
  \/ GeoDownloadFailed(i)
  \/ SaveCommitted(i)
  \/ SaveResolved(i)
  \/ SaveFailed(i)

Init ==
  /\ coordsObj \in CoordsBlobs \cup {Absent}
  /\ geoObj \in GeoBlobs \cup {Absent}
  /\ resultat = InitialResultat
  /\ LocalsInit
  /\ arg = Undefined
  /\ ret = Undefined
  /\ called = FALSE

Next ==
  \/ \E i \in Invocations : CoordsDownloaded(i)
  \/ \E i \in Invocations : CoordsDownloadFailed(i)
  \/ \E i \in Invocations : GeoDownloaded(i)
  \/ \E i \in Invocations : GeoDownloadFailed(i)
  \/ \E i \in Invocations : SaveCommitted(i)
  \/ \E i \in Invocations : SaveResolved(i)
  \/ \E i \in Invocations : SaveFailed(i)
  \/ Upload

Spec == Init /\ [][Next]_vars

\* Every pending download or save settles, and the continuation then runs
FairSpec == Spec /\ WF_vars(\E i \in Invocations : Continue(i))

---------------------------------------------------------------------------
(* Claims about parseCoordinateLine (ParseSpec) *)

\* C5: every Coordinate returned by parseCoordinateLine has a non-empty
\* trimmed uid and a lat and a lon that are finite numbers.
C5_CoordinateIsFinite ==
  (called /\ ret # Null) =>
     /\ ret.uid # <<>>
     /\ Trim(ret.uid) = ret.uid
     /\ IsFinite(ret.lat)
     /\ IsFinite(ret.lon)

FieldsOf(line) == Split(line, "\t")

NumberField(f) == parseFloat(ReplaceFirst(Trim(f), ",", "."))

\* C6: the uid is tab-separated field 0 of the line, trimmed; a line whose
\* field 0 is empty after trimming is rejected however many fields follow,
\* and lat/lon of a returned coordinate come from fields 1 and 2.
C6_UidIsFieldZero ==
  called =>
     LET f == FieldsOf(arg)
     IN  /\ (Trim(f[1]) = <<>>) => (ret = Null)
         /\ (ret # Null) =>
               /\ Len(f) >= 3
               /\ ret.uid = Trim(f[1])
               /\ ret.lat = NumberField(f[2])
               /\ ret.lon = NumberField(f[3])

---------------------------------------------------------------------------
(* Claims about the parsing of a coordinates file (FileSpec) *)

ParsedLines(f) == [n \in 1..Len(f.lines) |-> parseCoordinateLine(f.lines[n])]

Malformed(line) == Len(FieldsOf(line)) < 3

\* C7: a line with fewer than 3 tab-separated fields yields no coordinate
\* and does not abort the batch: the coordinates of the file are those of
\* its valid data lines, all of them, in the order of their lines.
C7_MalformedLineSkipped ==
  called =>
     /\ \A n \in 1..Len(arg.lines) :
           Malformed(arg.lines[n]) => parseCoordinateLine(arg.lines[n]) = Null
     /\ ret = SelectSeq(ParsedLines(arg), NotNull)

\* A malformed line stands between two valid lines, and both are parsed
C7_Witness ==
  /\ called
  /\ Len(arg.lines) = 3
  /\ ~Malformed(arg.lines[1]) /\ parseCoordinateLine(arg.lines[1]) # Null
  /\ Malformed(arg.lines[2]) /\ arg.lines[2] # <<>>
  /\ ~Malformed(arg.lines[3]) /\ parseCoordinateLine(arg.lines[3]) # Null
  /\ arg.lines[1] # arg.lines[3]
  /\ Len(ret) = 2

---------------------------------------------------------------------------
(* Claims about the matching (MatchSpec) *)

Inside(c, f) == ~PolygonThrows(f) /\ booleanPointInPolygon(PointOf(c), f)

Containing(c, fs) == {n \in 1..Len(fs) : Inside(c, fs[n])}

FirstOf(S) == CHOOSE n \in S : \A j \in S : n <= j

HasProps(f) == f.properties \notin {Null, Undefined}

\* The scan for c meets no feature that makes it throw
ScanSucceeds(c, fs) ==
  LET S == Containing(c, fs)
  IN  IF S = {} THEN \A n \in 1..Len(fs) : ~PolygonThrows(fs[n])
      ELSE /\ \A n \in 1..(FirstOf(S) - 1) : ~PolygonThrows(fs[n])
           /\ HasProps(fs[FirstOf(S)])

\* The six attributes of a match record
AttrsOf(r) == [a \in Attributes |-> r[a]]

\* The attributes C1 expects for coordinate c: those of the first feature,
\* in catalog order, that contains it
FirstAttrs(c, fs) ==
  LET p == fs[FirstOf(Containing(c, fs))].properties
  IN  [a \in Attributes |-> OrEmpty(Get(p, a))]

Matched(cs, fs) == SelectSeq(cs, LAMBDA c : Containing(c, fs) # {})

\* C1: the match record of a coordinate carries the properties of the FIRST
\* polygon in catalog order that contains the point, never those of a later
\* one, and the polygons after it are not consulted (a later feature whose
\* test would throw does not fail the batch).
C1_FirstMatchWins ==
  called =>
     LET cs == arg.coordinates
         fs == arg.features.items
         m  == Matched(cs, fs)
     IN  /\ (\A n \in 1..Len(cs) : ScanSucceeds(cs[n], fs)) => ret.k = "array"
         /\ ret.k = "array" =>
               /\ Len(ret.items) = Len(m)
               /\ \A n \in 1..Len(m) :
                     /\ ret.items[n].uid = m[n].uid
                     /\ AttrsOf(ret.items[n]) = FirstAttrs(m[n], fs)

\* A point inside two polygons with different properties has been matched
\* to the first, the feature after them having no geometry
C1_Witness ==
  /\ called
  /\ ret.k = "array"
  /\ Len(arg.features.items) = 3
  /\ PolygonThrows(arg.features.items[3])
  /\ arg.features.items[1].properties # arg.features.items[2].properties
  /\ \E n \in 1..Len(arg.coordinates) :
        Containing(arg.coordinates[n], arg.features.items) = {1, 2}
  /\ Len(ret.items) = 2

\* The value C8 expects for attribute a of a record matched to feature f
DefaultedValue(f, a) ==
  IF HasProps(f) /\ a \in DOMAIN f.properties THEN f.properties[a] ELSE Str(<<>>)

\* The scan for c meets no feature without geometry before it ends
GeometryReadable(c, fs) ==
  LET S == Containing(c, fs)
  IN  \A n \in 1..(IF S = {} THEN Len(fs) ELSE FirstOf(S) - 1) : ~PolygonThrows(fs[n])

\* C8: each of the six attributes of a match record is the matching
\* feature's value when its properties hold the attribute and the empty
\* string when they do not; a matching feature lacking some or all of them,
\* or with no properties map at all, still yields a record and never fails
\* the batch.
C8_AbsentAttributesDefault ==
  called =>
     LET cs == arg.coordinates
         fs == arg.features.items
         m  == Matched(cs, fs)
     IN  (\A n \in 1..Len(cs) : GeometryReadable(cs[n], fs)) =>
            /\ ret.k = "array"
            /\ Len(ret.items) = Len(m)
            /\ \A n \in 1..Len(m) : \A a \in Attributes :
                  ret.items[n][a] = DefaultedValue(fs[FirstOf(Containing(m[n], fs))], a)

---------------------------------------------------------------------------
(* Claims about processCoordinates (Spec, FairSpec) *)

Range(f) == {f[n] : n \in DOMAIN f}

Failed(i) == error[i] # NoError

Responded(i, status) == Len(response[i]) = 1 /\ response[i][1].status = status

\* C2, in every state: an invocation in which a step failed has answered
\* HTTP 500 with the failure's message and has stored no report
C2_FailedState ==
  \A i \in Invocations :
     Failed(i) =>
        /\ response[i] = <<Http(500, <<"Erreur interne : ", error[i].message>>)>>
        /\ "store" \notin Range(steps[i])
        /\ lastWriter # i

\* C2, in every step: the step in which an invocation fails leaves
\* resultat.csv as it was
C2_FailingStep ==
  \A i \in Invocations : (~Failed(i) /\ Failed(i)') => resultat' = resultat

\* C2: when some step of an invocation fails (a fetch, the JSON parse, the
\* matching or the store), that invocation writes no report, full or
\* partial, under resultat.csv, and the caller receives HTTP 500 whose body
\* carries the failure's message.
C2_FailureStoresNothing == []C2_FailedState /\ [][C2_FailingStep]_vars

\* An invocation failed in its store, another in its matching, and the
\* object still holds what it held before
C2_Witness ==
  /\ \E i \in Invocations :
        /\ Failed(i)
        /\ error[i].message = "write failed"
        /\ csvContent[i].k = "string"
  /\ \E i \in Invocations :
        /\ Failed(i)
        /\ error[i].name = "TypeError"
        /\ "parseGeo" \in Range(steps[i])
  /\ resultat = InitialResultat

\* C3: when the parsed GeoJSON document has no features member, or one that
\* is not a sequence, the invocation ends as a fatal batch error (HTTP 500,
\* no report stored), also for a file that yields zero valid coordinates.
C3_MissingFeaturesIsFatal ==
  \A i \in Invocations :
     (pc[i] = "done" /\ "parseGeo" \in Range(steps[i]) /\ features[i].k # "array") =>
        /\ Responded(i, 500)
        /\ "store" \notin Range(steps[i])

InsideAny(c, feats) == feats.k = "array" /\ Containing(c, feats.items) # {}

\* Number of elements of the sequence s that satisfy Test
Count(s, Test(_)) == Len(SelectSeq(s, Test))

\* Data rows of a report: its lines after the header, one per line break
DataRows(text) == Cardinality({n \in 1..Len(text) : text[n] = "\n"})

HasLineBreak(v) == v.k = "string" /\ "\n" \in Range(v.s)

BreakFree(res) ==
  \A n \in 1..Len(res.items) : \A a \in Attributes : ~HasLineBreak(res.items[n][a])

ReportedCount(i) == response[i][1].body[2]

MatchingCoordinates(i) == Count(coordinates[i].items, LAMBDA c : InsideAny(c, features[i]))

\* C4 as stated: on HTTP 200 the count of the response equals the number of
\* data rows (lines after the header) of the report this invocation stored
\* and the number of valid coordinates inside at least one polygon; with
\* zero matches the report is exactly the header and the count is 0.
C4_CountEqualsDataRows ==
  \A i \in Invocations :
     Responded(i, 200) =>
        /\ ReportedCount(i) = DataRows(csvContent[i].s)
        /\ ReportedCount(i) = MatchingCoordinates(i)
        /\ (MatchingCoordinates(i) = 0) => (csvContent[i].s = header /\ ReportedCount(i) = 0)

\* C4 amended: on HTTP 200 the count equals the number of valid coordinates
\* inside at least one polygon; it equals the number of data rows of the
\* stored report when no attribute value of a match record holds a line
\* break; with zero matches the report is exactly the header and the
\* count is 0.
C4_CountEqualsMatches ==
  \A i \in Invocations :
     Responded(i, 200) =>
        /\ "store" \in Range(steps[i])
        /\ ReportedCount(i) = MatchingCoordinates(i)
        /\ BreakFree(results[i]) => ReportedCount(i) = DataRows(csvContent[i].s)
        /\ (MatchingCoordinates(i) = 0) => (csvContent[i].s = header /\ ReportedCount(i) = 0)

\* Three valid coordinates and a malformed line gave two rows and count 2,
\* and the report is the stored object
C4_Witness ==
  \E i \in Invocations :
     /\ Responded(i, 200)
     /\ Len(coordinates[i].items) = 3
     /\ ReportedCount(i) = 2
     /\ DataRows(csvContent[i].s) = 2
     /\ lastWriter = i
     /\ resultat = Blob(csvContent[i].s)

Locals(i) ==
  <<pc[i], coordinates[i], features[i], results[i], csvContent[i], error[i],
    response[i], steps[i]>>

\* C9, in every state: resultat.csv holds its initial content or the whole
\* report of the invocation whose store came last
C9_WholeReport ==
  resultat = IF lastWriter = 0 THEN InitialResultat
             ELSE Blob(BuildCsv(results[lastWriter].items))

\* C9, in every step: a step changes the local state of at most one
\* invocation
C9_Isolation ==
  \A i, j \in Invocations : (Locals(i)' # Locals(i) /\ i # j) => Locals(j)' = Locals(j)

\* C9: concurrent invocations share no state but the object resultat.csv,
\* whose content is always its initial content or the complete report of
\* exactly one invocation, the one whose store happened last; never a mix.
C9_LastWriteWins == []C9_WholeReport /\ [][C9_Isolation]_vars

\* Two invocations stored different reports one after the other
C9_Witness ==
  /\ \A i \in Invocations : "store" \in Range(steps[i])
  /\ \E i, j \in Invocations : csvContent[i] # csvContent[j]
  /\ lastWriter # 0
  /\ resultat = Blob(csvContent[lastWriter].s)

StepOrder ==
  <<"fetchCoords", "parseCoords", "fetchGeo", "parseGeo", "match", "build",
    "store", "respond200">>

IsPrefix(s, t) == Len(s) <= Len(t) /\ SubSeq(t, 1, Len(s)) = s

WithoutLast(s) == SubSeq(s, 1, Len(s) - 1)

\* C10, in every state: the steps run in order; at most one response; 200
\* only after the store, 500 exactly when a step failed
C10_Ordered ==
  \A i \in Invocations :
     /\ IF Failed(i) THEN /\ steps[i][Len(steps[i])] = "respond500"
                          /\ IsPrefix(WithoutLast(steps[i]), WithoutLast(WithoutLast(StepOrder)))
                     ELSE IsPrefix(steps[i], StepOrder)
     /\ Len(response[i]) <= 1
     /\ Len(response[i]) = 1 <=> pc[i] = "done"
     /\ Responded(i, 200) => (steps[i] = StepOrder /\ ~Failed(i))
     /\ Responded(i, 500) <=> Failed(i)
     /\ \A n \in 1..Len(response[i]) : response[i][n].status \in {200, 500}

\* C10: an invocation runs fetch coordinates, parse, fetch polygons, parse,
\* match, build, store, respond in that order and eventually sends exactly
\* one HTTP response: 200 only after the store, 500 if a step failed; never
\* both, and it never ends without a response.
C10_OneResponse ==
  /\ []C10_Ordered
  /\ \A i \in Invocations : <>(pc[i] = "done" /\ Len(response[i]) = 1)

\* One invocation answered 200 and another 500
C10_Witness ==
  \E i, j \in Invocations : Responded(i, 200) /\ Responded(j, 500)

===========================================================================
